---- MODULE Spec2Model ----
(***************************************************************************)
(* Beat Maker Studio (src/script.js): the 16-step drum sequencer.          *)
(*                                                                         *)
(* The model covers the pattern matrix, the grid cells' CSS classes, the   *)
(* step cursor of setupControls, the play / stop / tempo handlers and the  *)
(* callback registered with Tone.Transport.scheduleRepeat.                 *)
(*                                                                         *)
(* Tone.js and the DOM are collaborators and are modelled by the contract  *)
(* the code relies on:                                                     *)
(*   - the Transport invokes every callback registered with scheduleRepeat *)
(*     once per sixteenth note while its state is "started", and never     *)
(*     while it is "stopped"; start() on a started transport and stop()    *)
(*     on a stopped one change nothing;                                    *)
(*   - `await Tone.start()` suspends the play handler; the continuation    *)
(*     runs at some later point (or the promise rejects), and other events *)
(*     may be handled in between;                                          *)
(*   - a disabled button dispatches no click event.                        *)
(* Strings that the code converts (dataset attributes, the slider value)   *)
(* are sequences of decimal digits.                                        *)
(***************************************************************************)
EXTENDS Integers, Sequences, FiniteSets

\* ------------------------------------------------------------ constants

\* const steps = 16
steps == 16

\* const instruments = [ kick, snare, hihat, clap ] (the name fields)
instruments == <<"kick", "snare", "hihat", "clap">>

\* JavaScript arrays are indexed from 0
Rows == 0 .. (Len(instruments) - 1)
Cols == 0 .. (steps - 1)
instName(rowIndex) == instruments[rowIndex + 1]
\* the grid cells buildSequencerGrid creates, by (rowIndex, step)
Cells == Rows \X Cols

\* The slider's range as documented: "Adjust BPM from 60-180 with a slider"
MinBpm == 60
MaxBpm == 180

\* Tone.Transport.bpm.value before the slider is ever moved
DefaultBpm == 120

\* ------------------------------------------------------------ bounds

\* play handlers that may be suspended on `await Tone.start()` at once
MaxPending == 2
\* ticks the clock fires between one start/stop and the next
MaxTicks == 17

\* the cells the user clicks: two in the first column, one in the last
ClickCells == { <<0, 0>>, <<2, 0>>, <<3, 15>> }
\* the values the user tries to give the tempo slider
SliderAttempts == { MinBpm - 1, MinBpm, MaxBpm, MaxBpm + 1 }
\* the scheduled times the clock hands to a tick
Times == { 1, 2 }

\* ------------------------------------------------------------ conversions

\* the result of parseInt on a string that spells no number
NaN == -1

\* String(n) for a non-negative integer: its decimal digits
RECURSIVE Str(_)
Str(n) == IF n < 10 THEN <<n>> ELSE Append(Str(n \div 10), n % 10)

\* parseInt(str): the number spelled by the digits, NaN for the empty string
RECURSIVE ParseDigits(_, _)
ParseDigits(str, acc) ==
    IF str = <<>> THEN acc
    ELSE ParseDigits(Tail(str), 10 * acc + Head(str))
parseInt(str) == IF str = <<>> THEN NaN ELSE ParseDigits(str, 0)

\* cell.dataset.row = rowIndex; cell.dataset.step = step
dataset(rowIndex, step) == [row |-> Str(rowIndex), step |-> Str(step)]

\* dataset contents that name no cell of the grid: a row past the last
\* instrument, a step past the last column
StrayData ==
    { [row |-> Str(Len(instruments)), step |-> Str(0)],
      [row |-> Str(0), step |-> Str(steps)] }

\* <input type="range" min max>: the value the element holds after the user
\* tries to set it to v
SliderValue(v) ==
    Str(IF v < MinBpm THEN MinBpm ELSE IF v > MaxBpm THEN MaxBpm ELSE v)

\* ------------------------------------------------------------ state

VARIABLES
    pattern,        \* pattern[row][step]: the activation matrix
    cellActive,     \* the cells <<row, step>> that have class "active"
    cellCurrent,    \* the cells <<row, step>> that have class "current"
    currentStep,    \* let currentStep of setupControls
    transport,      \* Tone.Transport.state: "stopped" or "started"
    subscriptions,  \* callbacks registered with Tone.Transport.scheduleRepeat
    bpm,            \* Tone.Transport.bpm.value
    tempoValue,     \* tempoValue.textContent
    playDisabled,   \* playBtn.disabled
    stopDisabled,   \* stopBtn.disabled
    pending,        \* play handlers suspended on `await Tone.start()`
    triggers,       \* the sample starts issued by the latest tick, in order
    sounded,        \* the column the latest tick read
    \* history of the run, for the properties
    lastOp,         \* the handler that ran last
    ticksInRun,     \* ticks since the latest completed start or stop
    toggledInRun,   \* a cell was clicked since the latest completed start
    stopHandled,    \* a stop click was handled and no start completed since
    playSinceStop,  \* a play click was issued since the latest handled stop
    lastArg         \* what it was given: the cell clicked, the value the user
                    \* tried to give the slider, the time the clock passed

prog == <<pattern, cellActive, cellCurrent, currentStep, transport,
          subscriptions, bpm, tempoValue, playDisabled, stopDisabled,
          pending, triggers, sounded>>
hist == <<lastOp, lastArg, ticksInRun, toggledInRun, stopHandled, playSinceStop>>
vars == <<prog, hist>>

\* the program's state as one value, for the handlers below
State ==
    [pattern |-> pattern, cellActive |-> cellActive, cellCurrent |-> cellCurrent,
     currentStep |-> currentStep, transport |-> transport,
     subscriptions |-> subscriptions, bpm |-> bpm, tempoValue |-> tempoValue,
     playDisabled |-> playDisabled, stopDisabled |-> stopDisabled,
     pending |-> pending, triggers |-> triggers, sounded |-> sounded]

Install(n) ==
    /\ pattern' = n.pattern
    /\ cellActive' = n.cellActive
    /\ cellCurrent' = n.cellCurrent
    /\ currentStep' = n.currentStep
    /\ transport' = n.transport
    /\ subscriptions' = n.subscriptions
    /\ bpm' = n.bpm
    /\ tempoValue' = n.tempoValue
    /\ playDisabled' = n.playDisabled
    /\ stopDisabled' = n.stopDisabled
    /\ pending' = n.pending
    /\ triggers' = n.triggers
    /\ sounded' = n.sounded

Record(op, arg) ==
    /\ lastOp' = op
    /\ lastArg' = arg


\* ------------------------------------------------------------ handlers

\* a click handler that activates the cell instead of flipping it
cellClickSetsActive(s, rowIndex, step) ==
    LET row == parseInt(dataset(rowIndex, step).row)
        col == parseInt(dataset(rowIndex, step).step)
    IN  [s EXCEPT !.pattern[row][col] = TRUE,
                  !.cellActive = @ \cup { <<rowIndex, step>> }]

\* a click handler that flips the whole row of the cell
cellClickFlipsRow(s, rowIndex, step) ==
    LET row == parseInt(dataset(rowIndex, step).row)
        col == parseInt(dataset(rowIndex, step).step)
        flipped == ~ s.pattern[row][col]
    IN  [s EXCEPT !.pattern[row] = [c \in DOMAIN @ |-> ~ @[c]],
                  !.cellActive = IF flipped THEN @ \cup { <<rowIndex, step>> }
                                 ELSE @ \ { <<rowIndex, step>> }]

\* a click handler that flips the matrix cell and leaves the cell's class alone
cellClickKeepsClass(s, rowIndex, step) ==
    LET row == parseInt(dataset(rowIndex, step).row)
        col == parseInt(dataset(rowIndex, step).step)
    IN  [s EXCEPT !.pattern[row][col] = ~ @]

\* pattern[row] is undefined for a row the matrix does not have, and reading
\* a property of undefined throws a TypeError
cellAccessThrows(s, data) == parseInt(data.row) \notin DOMAIN s.pattern

\* the body of the cell click listener, run on the cell built for
\* (rowIndex, step) while its dataset holds `data`. An array element that does
\* not exist reads as undefined, which ! turns into true, and assigning to it
\* creates it.
cellClickWith(s, rowIndex, step, data) ==
    LET row == parseInt(data.row)
        col == parseInt(data.step)
    IN  IF cellAccessThrows(s, data) THEN s
        ELSE LET old == IF col \in DOMAIN s.pattern[row]
                        THEN s.pattern[row][col] ELSE FALSE
                 flipped == ~ old
             IN  [s EXCEPT
                    !.pattern[row] =
                        [k \in (DOMAIN @) \cup { col } |->
                            IF k = col THEN flipped ELSE @[k]],
                    \* classList.toggle('active', force) on the clicked cell
                    !.cellActive = IF flipped THEN @ \cup { <<rowIndex, step>> }
                                   ELSE @ \ { <<rowIndex, step>> }]

\* cell.addEventListener('click', ...) of the cell built for (rowIndex, step)
cellClick(s, rowIndex, step) ==
    cellClickWith(s, rowIndex, step, dataset(rowIndex, step))

\* clearStepHighlight(): every cell with class "current" loses it
clearStepHighlight(s) ==
    [s EXCEPT !.cellCurrent = @ \ { cell \in Cells : cell \in s.cellCurrent }]

\* a highlight that does not clear the previous one
highlightStepNoClear(s, stepIndex) ==
    [s EXCEPT !.cellCurrent =
        @ \cup { cell \in Cells : dataset(cell[1], cell[2]).step = Str(stepIndex) }]

\* highlightStep(stepIndex): clear, then mark the cells whose data-step
\* attribute equals the index written into the selector
highlightStep(s, stepIndex) ==
    LET cleared == clearStepHighlight(s)
    IN  [cleared EXCEPT !.cellCurrent =
            @ \cup { cell \in Cells : dataset(cell[1], cell[2]).step = Str(stepIndex) }]

\* a forEach that stamps every row with a time of its own
RECURSIVE columnTriggersOwnTime(_, _, _, _)
columnTriggersOwnTime(pat, step, time, rowIndex) ==
    IF rowIndex >= Len(instruments) THEN <<>>
    ELSE (IF pat[rowIndex][step]
          THEN <<[inst |-> instName(rowIndex), time |-> time + rowIndex]>>
          ELSE <<>>)
         \o columnTriggersOwnTime(pat, step, time, rowIndex + 1)

\* a forEach that sounds the inactive cells
RECURSIVE columnTriggersInverted(_, _, _, _)
columnTriggersInverted(pat, step, time, rowIndex) ==
    IF rowIndex >= Len(instruments) THEN <<>>
    ELSE (IF ~ pat[rowIndex][step]
          THEN <<[inst |-> instName(rowIndex), time |-> time]>>
          ELSE <<>>)
         \o columnTriggersInverted(pat, step, time, rowIndex + 1)

\* instruments.forEach: the rows whose cell in the column is active, in order
RECURSIVE columnTriggers(_, _, _, _)
columnTriggers(pat, step, time, rowIndex) ==
    IF rowIndex >= Len(instruments) THEN <<>>
    ELSE (IF pat[rowIndex][step]
          THEN <<[inst |-> instName(rowIndex), time |-> time]>>
          ELSE <<>>)
         \o columnTriggers(pat, step, time, rowIndex + 1)

\* a callback that advances the cursor without wrapping it
tickCallbackNoWrap(s, time) ==
    LET lit == highlightStep(s, s.currentStep)
    IN  [lit EXCEPT
            !.triggers = @ \o columnTriggers(s.pattern, s.currentStep, time, 0),
            !.currentStep = s.currentStep + 1]

\* a callback that advances the cursor before it reads the column
tickCallbackAdvanceFirst(s, time) ==
    LET step == (s.currentStep + 1) % steps
        lit == highlightStep(s, step)
    IN  [lit EXCEPT
            !.triggers = @ \o columnTriggers(s.pattern, step, time, 0),
            !.currentStep = step]

\* the callback given to Tone.Transport.scheduleRepeat
tickCallback(s, time) ==
    LET lit == highlightStep(s, s.currentStep)
    IN  [lit EXCEPT
            !.triggers = @ \o columnTriggers(s.pattern, s.currentStep, time, 0),
            !.currentStep = (s.currentStep + 1) % steps]

\* one tick of the clock: every registered callback runs with the same time
RECURSIVE runCallbacks(_, _, _)
runCallbacks(s, time, n) ==
    IF n = 0 THEN s ELSE runCallbacks(tickCallback(s, time), time, n - 1)

clockTick(s, time) ==
    runCallbacks([s EXCEPT !.triggers = <<>>, !.sounded = s.currentStep],
                 time, s.subscriptions)

\* playBtn click handler up to `await Tone.start()`
playClick(s) == [s EXCEPT !.pending = @ + 1]

\* a continuation that registers the tick callback again on every start
playContinueResubscribes(s) ==
    [s EXCEPT !.pending = @ - 1,
              !.currentStep = 0,
              !.subscriptions = @ + 1,
              !.transport = "started",
              !.playDisabled = TRUE,
              !.stopDisabled = FALSE]

\* a continuation that does not reset the cursor
playContinueKeepsCursor(s) ==
    [s EXCEPT !.pending = @ - 1,
              !.transport = "started",
              !.playDisabled = TRUE,
              !.stopDisabled = FALSE]

\* a continuation that disables Play and leaves Stop as it was
playContinueLeavesStop(s) ==
    [s EXCEPT !.pending = @ - 1,
              !.currentStep = 0,
              !.transport = "started",
              !.playDisabled = TRUE]

\* playBtn click handler after the await
playContinue(s) ==
    [s EXCEPT !.pending = @ - 1,
              !.currentStep = 0,
              !.transport = "started",
              !.playDisabled = TRUE,
              !.stopDisabled = FALSE]

\* a handler that disables Play before the await and ends on the rejection
playRejectDisablesPlay(s) == [s EXCEPT !.pending = @ - 1, !.playDisabled = TRUE]

\* the awaited promise rejects: the handler ends there
playReject(s) == [s EXCEPT !.pending = @ - 1]

\* a stop handler that also clears the matrix
stopClickClearsPattern(s) ==
    LET halted == [s EXCEPT !.transport = "stopped", !.currentStep = 0,
                            !.pattern = [r \in DOMAIN @ |-> [c \in DOMAIN @[r] |-> FALSE]]]
    IN  [clearStepHighlight(halted) EXCEPT
            !.playDisabled = FALSE,
            !.stopDisabled = TRUE]

\* a stop handler that leaves the highlight in place
stopClickKeepsHighlight(s) ==
    [s EXCEPT !.transport = "stopped",
              !.currentStep = 0,
              !.playDisabled = FALSE,
              !.stopDisabled = TRUE]

\* a stop handler that flips the buttons instead of setting them
stopClickFlipsButtons(s) ==
    LET halted == [s EXCEPT !.transport = "stopped", !.currentStep = 0]
    IN  [clearStepHighlight(halted) EXCEPT
            !.playDisabled = ~ @,
            !.stopDisabled = ~ @]

\* a stop handler that does not stop the transport
stopClickKeepsTransport(s) ==
    LET reset == [s EXCEPT !.currentStep = 0]
    IN  [clearStepHighlight(reset) EXCEPT
            !.playDisabled = FALSE,
            !.stopDisabled = TRUE]

\* a stop handler that leaves the cursor where the last tick put it
stopClickKeepsCursor(s) ==
    LET halted == [s EXCEPT !.transport = "stopped"]
    IN  [clearStepHighlight(halted) EXCEPT
            !.playDisabled = FALSE,
            !.stopDisabled = TRUE]

\* stopBtn click handler
stopClick(s) ==
    LET halted == [s EXCEPT !.transport = "stopped", !.currentStep = 0]
    IN  [clearStepHighlight(halted) EXCEPT
            !.playDisabled = FALSE,
            !.stopDisabled = TRUE]

\* a tempo handler that starts the transport
tempoInputStartsTransport(s, value) ==
    LET parsed == parseInt(value)
    IN  [s EXCEPT !.bpm = parsed,
                  !.transport = "started",
                  !.tempoValue = IF parsed = NaN THEN <<NaN>> ELSE Str(parsed)]

\* a tempo handler that restarts the cycle
tempoInputRestartsCycle(s, value) ==
    LET parsed == parseInt(value)
    IN  [s EXCEPT !.bpm = parsed,
                  !.currentStep = 0,
                  !.tempoValue = IF parsed = NaN THEN <<NaN>> ELSE Str(parsed)]

\* a tempo handler that adds the slider's value to the tempo
tempoInputAddsToBpm(s, value) ==
    LET parsed == parseInt(value)
    IN  [s EXCEPT !.bpm = @ + parsed,
                  !.tempoValue = IF parsed = NaN THEN <<NaN>> ELSE Str(parsed)]

\* tempoSlider input handler, the slider holding the string `value`
tempoInput(s, value) ==
    LET parsed == parseInt(value)
    IN  [s EXCEPT !.bpm = parsed,
                  \* textContent = bpm stores the number's string
                  !.tempoValue = IF parsed = NaN THEN <<NaN>> ELSE Str(parsed)]

\* ------------------------------------------------------------ behaviour

\* Array(steps) left unfilled: rows without cells
initialPatternUnfilled == [r \in Rows |-> <<>>]

\* const pattern = instruments.map(() => Array(steps).fill(false))
initialPattern == [r \in Rows |-> [c \in Cols |-> FALSE]]

\* the page as loaded: nothing playing, Play enabled, Stop disabled
InitialControls ==
    [playDisabled |-> FALSE, stopDisabled |-> TRUE, tempoValue |-> Str(DefaultBpm)]

Init ==
    /\ pattern = initialPattern
    /\ cellActive = {}
    /\ cellCurrent = {}
    /\ currentStep = 0
    /\ transport = "stopped"
    /\ subscriptions = 1
    /\ bpm = DefaultBpm
    /\ tempoValue = InitialControls.tempoValue
    /\ playDisabled = InitialControls.playDisabled
    /\ stopDisabled = InitialControls.stopDisabled
    /\ pending = 0
    /\ triggers = <<>>
    /\ sounded = 0
    /\ lastOp = "init"
    /\ lastArg = <<>>
    /\ ticksInRun = 0
    /\ toggledInRun = FALSE
    /\ stopHandled = FALSE
    /\ playSinceStop = FALSE

CellClick(rowIndex, step) ==
    /\ Install(cellClick(State, rowIndex, step))
    /\ Record("toggle", <<rowIndex, step>>)
    /\ toggledInRun' = TRUE
    /\ UNCHANGED <<ticksInRun, stopHandled, playSinceStop>>

PlayClick ==
    /\ ~ playDisabled
    /\ pending < MaxPending
    /\ Install(playClick(State))
    /\ Record("play", <<>>)
    /\ playSinceStop' = TRUE
    /\ UNCHANGED <<ticksInRun, toggledInRun, stopHandled>>

PlayContinue ==
    /\ pending > 0
    /\ Install(playContinue(State))
    /\ Record("started", <<>>)
    /\ ticksInRun' = 0
    /\ toggledInRun' = FALSE
    /\ stopHandled' = FALSE
    /\ UNCHANGED playSinceStop

PlayReject ==
    /\ pending > 0
    /\ Install(playReject(State))
    /\ Record("rejected", <<>>)
    /\ UNCHANGED <<ticksInRun, toggledInRun, stopHandled, playSinceStop>>

StopClick ==
    /\ ~ stopDisabled
    /\ Install(stopClick(State))
    /\ Record("stop", <<>>)
    /\ ticksInRun' = 0
    /\ stopHandled' = TRUE
    /\ playSinceStop' = FALSE
    /\ UNCHANGED toggledInRun

TempoInput(v) ==
    /\ Install(tempoInput(State, SliderValue(v)))
    /\ Record("tempo", v)
    /\ UNCHANGED <<ticksInRun, toggledInRun, stopHandled, playSinceStop>>

Tick(time) ==
    /\ transport = "started"
    /\ ticksInRun < MaxTicks
    /\ Install(clockTick(State, time))
    /\ Record("tick", time)
    /\ ticksInRun' = ticksInRun + 1
    /\ UNCHANGED <<toggledInRun, stopHandled, playSinceStop>>

\* the user's events and the completions of the play handler
Handlers ==
    \/ \E cell \in ClickCells : CellClick(cell[1], cell[2])
    \/ PlayClick
    \/ PlayContinue
    \/ PlayReject
    \/ StopClick
    \/ \E v \in SliderAttempts : TempoInput(v)

Next ==
    \/ Handlers
    \/ \E time \in Times : Tick(time)

Spec == Init /\ [][Next]_vars

\* the page between ticks: the handlers alone, on every matrix the clicks reach
GridSpec == Init /\ [][Handlers]_vars

\* a click on a cell whose data-row / data-step attributes name no cell of the
\* grid (the page itself never writes such attributes)
StrayClick(rowIndex, step, data) ==
    /\ Install(cellClickWith(State, rowIndex, step, data))
    /\ Record(IF cellAccessThrows(State, data) THEN "toggleThrew" ELSE "toggle",
              <<parseInt(data.row), parseInt(data.step)>>)
    /\ toggledInRun' = (toggledInRun \/ ~ cellAccessThrows(State, data))
    /\ UNCHANGED <<ticksInRun, stopHandled, playSinceStop>>

AccessNext ==
    \/ Handlers
    \/ \E data \in StrayData : StrayClick(0, 0, data)

\* the handlers, the pattern accessed also with indices outside the grid
AccessSpec == Init /\ [][AccessNext]_vars

\* ------------------------------------------------------------ properties

\* how many sample starts the latest tick issued for a row
TriggerCount(rowIndex) ==
    Cardinality({ i \in 1 .. Len(triggers) : triggers[i].inst = instName(rowIndex) })

\* what stop() is specified to leave behind
Observable(s) ==
    <<s.transport, s.currentStep, s.bpm, s.tempoValue, s.pattern,
      s.cellActive, s.cellCurrent, s.playDisabled, s.stopDisabled>>

\* C1: counting the ticks k = 0, 1, 2, ... from the completion of a start, with
\* no cell clicked since, the k-th tick issues a sample start for row r exactly
\* when pattern[r][k mod steps] is active, and after steps ticks the cursor is
\* back at 0.
C1_CycleFromStart ==
    /\ (lastOp = "tick" /\ ~ toggledInRun) =>
          \A r \in Rows :
              (TriggerCount(r) >= 1) <=> pattern[r][(ticksInRun - 1) % steps]
    /\ (transport = "started" /\ ticksInRun = steps) => currentStep = 0

\* C1 witness: the sixteenth tick of a run without clicks sounded the clap of
\* the last column and wrapped the cursor.
C1_Witness ==
    /\ lastOp = "tick"
    /\ ~ toggledInRun
    /\ ticksInRun = steps
    /\ pattern[3][steps - 1]
    /\ Len(triggers) = 1
    /\ triggers[1].inst = "clap"
    /\ currentStep = 0

\* C2: a play handler that completes while the transport is already started
\* (a second start without a stop in between) leaves running, currentStep, the
\* pattern and the number of tick subscriptions as they were.
C2_SecondStartIsNoOp ==
    [][(lastOp' = "started" /\ transport = "started") =>
          /\ transport' = transport
          /\ currentStep' = currentStep
          /\ pattern' = pattern
          /\ subscriptions' = subscriptions]_vars

\* C3: the tick callback is subscribed exactly once, and a tick issues one
\* sample start for every active cell of the column it reads and none for an
\* inactive one.
C3_OneTriggerPerActiveCell ==
    /\ subscriptions = 1
    /\ lastOp = "tick" =>
          \A r \in Rows : TriggerCount(r) = (IF pattern[r][sounded] THEN 1 ELSE 0)

\* C3 witness: after a stop and a restart a tick sounded both active cells of
\* column 0, once each.
C3_Witness ==
    /\ lastOp = "tick"
    /\ sounded = 0
    /\ pattern[0][0]
    /\ pattern[2][0]
    /\ Len(triggers) = 2
    /\ bpm = MaxBpm
    /\ pending = 1

\* C4: a start whose unlock succeeded ends with the transport started and the
\* cursor at 0; the first tick after it reads column 0 and leaves the cursor at
\* 1, the start resetting it no second time.
C4_StartResetsCursor ==
    /\ lastOp = "started" =>
          (transport = "started" /\ currentStep = 0 /\ ticksInRun = 0)
    /\ (lastOp = "tick" /\ ticksInRun = 1) => (sounded = 0 /\ currentStep = 1)

\* C4 witness: a start completed after an earlier run had moved the cursor.
C4_Witness ==
    /\ lastOp = "started"
    /\ pending = 0
    /\ sounded = 5
    /\ currentStep = 0
    /\ cellCurrent = {}

\* C5: a handled stop click leaves the transport stopped, the cursor at 0 and
\* no cell of any row marked current.
C5_StopResets ==
    lastOp = "stop" =>
        (transport = "stopped" /\ currentStep = 0 /\ cellCurrent = {})

\* C5 witness: stop was clicked after the tick that lit column 2.
C5_Witness ==
    /\ lastOp = "stop"
    /\ sounded = 2
    /\ Len(triggers) = 0
    /\ pending = 0

\* C6: in every reachable state, running the stop handler twice leaves what
\* running it once leaves, and in a stopped state it changes nothing.
C6_StopIdempotent ==
    LET once == stopClick(State)
        twice == stopClick(once)
    IN  /\ Observable(twice) = Observable(once)
        /\ twice = once
        /\ transport = "stopped" => Observable(once) = Observable(State)

\* C6 witness: a stop has been handled in a run that had sounded an active cell.
C6_Witness ==
    /\ lastOp = "stop"
    /\ transport = "stopped"
    /\ pattern[0][0]
    /\ Len(triggers) = 1
    /\ stopDisabled

\* C7: from a handled stop click until a start completes no tick is processed:
\* the transport is stopped, the cursor stays at 0 and nothing is highlighted.
C7_NoTickAfterStop ==
    stopHandled =>
        /\ lastOp # "tick"
        /\ ticksInRun = 0
        /\ transport = "stopped"
        /\ currentStep = 0
        /\ cellCurrent = {}

\* C7 witness: a cell was clicked after a stop that ended a run with ticks, a
\* play click still waiting for its unlock.
C7_Witness ==
    /\ stopHandled
    /\ lastOp = "toggle"
    /\ sounded = 1
    /\ pending = 1

\* C8: while the transport is started, a tempo change leaves the cursor where
\* the ticks left it, and the k-th tick of the run reads column (k - 1) mod
\* steps: no index is skipped or repeated.
C8_TempoKeepsProgression ==
    /\ (lastOp = "tempo" /\ transport = "started") =>
          currentStep = ticksInRun % steps
    /\ (lastOp = "tick") =>
          (sounded = (ticksInRun - 1) % steps /\ currentStep = ticksInRun % steps)

\* C8 witness: the tempo was set to an in-range value in the middle of a run.
C8_Witness ==
    /\ lastOp = "tempo"
    /\ transport = "started"
    /\ ticksInRun = 3
    /\ currentStep = 3
    /\ lastArg = MaxBpm
    /\ bpm = MaxBpm

\* C9: the transport's tempo is always within MinBpm .. MaxBpm, also after the
\* user tried to set a value outside of it, stopped or started.
C9_TempoInRange ==
    /\ bpm \in MinBpm .. MaxBpm
    /\ lastOp = "tempo" =>
          bpm = (IF lastArg < MinBpm THEN MinBpm
                 ELSE IF lastArg > MaxBpm THEN MaxBpm ELSE lastArg)

\* C9 witness: a value below the range was tried while the transport ran.
C9_Witness ==
    /\ lastOp = "tempo"
    /\ lastArg = MinBpm - 1
    /\ bpm = MinBpm
    /\ transport = "started"

\* C10: in every reachable state and for every cell, clicking the cell twice
\* gives back the pattern matrix (and the cells' active marks) as they were.
C10_ToggleInvolution ==
    \A cell \in Cells :
        LET once == cellClick(State, cell[1], cell[2])
            twice == cellClick(once, cell[1], cell[2])
        IN  /\ once.pattern # pattern
            /\ twice.pattern = pattern
            /\ twice.cellActive = cellActive

\* C10 witness: a click has just returned the matrix to all-inactive.
C10_Witness ==
    /\ lastOp = "toggle"
    /\ toggledInRun
    /\ \A cell \in Cells : ~ pattern[cell[1]][cell[2]]
    /\ cellActive = {}

\* C11: a click on cell (row, step) negates pattern[row][step] and nothing else
\* of the matrix, hands the new value to the cell's active mark, and leaves
\* the other cells' marks, running, the tempo and the cursor as they were.
C11_ToggleFrame ==
    [][lastOp' = "toggle" =>
          LET row == lastArg'[1]
              col == lastArg'[2]
          IN  /\ pattern' = [pattern EXCEPT ![row][col] = ~ pattern[row][col]]
              /\ (<<row, col>> \in cellActive') <=> pattern'[row][col]
              /\ cellActive' \ { <<row, col>> } = cellActive \ { <<row, col>> }
              /\ UNCHANGED <<transport, bpm, currentStep>>]_vars

\* C11 witness: the kick of column 0 was switched on in the middle of a run.
C11_Witness ==
    /\ lastOp = "toggle"
    /\ lastArg = <<0, 0>>
    /\ pattern[0][0]
    /\ <<0, 0>> \in cellActive
    /\ transport = "started"
    /\ currentStep = 3
    /\ bpm = MinBpm

C13_UnlockFailureKeepsStopped ==
    [][lastOp' = "rejected" =>
          /\ UNCHANGED <<transport, currentStep, pattern, cellCurrent,
                         playDisabled, stopDisabled, triggers, ticksInRun>>
          /\ transport = "stopped" => (transport' = "stopped" /\ ~ playDisabled')]_vars

\* C13 witness: the only waiting play handler failed on a stopped transport
\* with a composed pattern; Play is still enabled.
C13_Witness ==
    /\ lastOp = "rejected"
    /\ transport = "stopped"
    /\ pending = 0
    /\ ~ playDisabled
    /\ stopDisabled
    /\ pattern[0][0]
    /\ currentStep = 0

\* C14: all sample starts of one tick carry the same time, the one the clock
\* passed to that tick.
C14_SameScheduledTime ==
    /\ \A i, j \in 1 .. Len(triggers) : triggers[i].time = triggers[j].time
    /\ lastOp = "tick" => \A i \in 1 .. Len(triggers) : triggers[i].time = lastArg

\* C14 witness: a tick given time 2 sounded kick and hi-hat of column 0.
C14_Witness ==
    /\ lastOp = "tick"
    /\ lastArg = 2
    /\ Len(triggers) = 2
    /\ triggers[1].inst = "kick"
    /\ triggers[2].inst = "hihat"

\* C15: the cursor is always within 0 .. steps - 1, and a tick leaves it at the
\* successor, modulo steps, of the value it found.
C15_CursorInRange ==
    /\ currentStep \in 0 .. (steps - 1)
    /\ lastOp = "tick" => currentStep = (sounded + 1) % steps

\* C15 witness: the tick that found the cursor on the last column wrapped it.
C15_Witness ==
    /\ lastOp = "tick"
    /\ sounded = steps - 1
    /\ currentStep = 0

\* C16: right after a tick exactly the cells of the column it sounded, which
\* is (currentStep - 1) mod steps, are marked current, in every row.
C16_HighlightIsSoundedStep ==
    lastOp = "tick" =>
        /\ cellCurrent = { cell \in Cells : cell[2] = (currentStep - 1) % steps }
        /\ cellCurrent = Rows \X { sounded }

\* C16 witness: after the sixteenth tick the last column is lit and the
\* cursor is back at 0.
C16_Witness ==
    /\ lastOp = "tick"
    /\ ticksInRun = steps
    /\ currentStep = 0
    /\ cellCurrent = Rows \X { steps - 1 }

\* C17: a tick sounds a row exactly when the row's cell in the column under
\* the cursor is active in the matrix as the clicks before it left it, and a
\* click changes nothing of what earlier ticks issued.
C17_ToggleTakesEffectAtNextRead ==
    [][/\ lastOp' = "tick" =>
              \A r \in Rows :
                  ({ i \in 1 .. Len(triggers') : triggers'[i].inst = instName(r) } # {})
                      <=> pattern[r][currentStep]
       /\ lastOp' = "toggle" => UNCHANGED <<triggers, sounded>>]_vars

\* C17 witness: a cell was clicked during the run and the seventeenth tick,
\* the second to read column 0, sounded the kick.
C17_Witness ==
    /\ lastOp = "tick"
    /\ toggledInRun
    /\ ticksInRun = steps + 1
    /\ sounded = 0
    /\ TriggerCount(0) = 1
    /\ TriggerCount(2) = 0

\* C18: play clicks, completed and failed starts, stops, tempo changes and
\* ticks leave every cell of the matrix as it was.
C18_OnlyToggleChangesPattern ==
    [][lastOp' \in { "play", "started", "rejected", "stop", "tempo", "tick" } =>
          pattern' = pattern]_vars

\* C18 witness: a pattern is still there when playback is started again after
\* an earlier run was stopped.
C18_Witness ==
    /\ lastOp = "started"
    /\ ~ stopHandled
    /\ sounded = 4
    /\ cellCurrent = {}
    /\ pattern[0][0]
    /\ pattern[3][steps - 1]

\* C19: a tick, a cell click and a tempo change leave the transport's running
\* state as it was.
C19_RunningOnlyByStartStop ==
    [][lastOp' \in { "tick", "toggle", "tempo" } => transport' = transport]_vars

\* C19 witness: the tempo was changed after a stop and the transport is still
\* stopped.
C19_Witness ==
    /\ lastOp = "tempo"
    /\ stopHandled
    /\ transport = "stopped"
    /\ bpm = MaxBpm
    /\ pending = 0

\* C20: the matrix always has one row per instrument (4) of steps (16) cells,
\* every cell a boolean, and all cells are inactive at the start.
C20_MatrixShape ==
    /\ DOMAIN pattern = 0 .. (Len(instruments) - 1)
    /\ Cardinality(DOMAIN pattern) = 4
    /\ \A r \in DOMAIN pattern :
          /\ DOMAIN pattern[r] = 0 .. (steps - 1)
          /\ Cardinality(DOMAIN pattern[r]) = 16
          /\ \A c \in DOMAIN pattern[r] : pattern[r][c] \in BOOLEAN
    /\ lastOp = "init" => \A cell \in Cells : ~ pattern[cell[1]][cell[2]]

\* C20 witness: all three clicked cells are active while the transport runs.
C20_Witness ==
    /\ pattern[0][0]
    /\ pattern[2][0]
    /\ pattern[3][steps - 1]
    /\ transport = "started"
    /\ lastOp = "tick"

\* C21: what is rendered never disagrees with the matrix: in every reachable
\* state a cell has class "active" exactly when pattern[row][step] is true, and
\* the latest tick issued a sample start for a row exactly when the row's cell
\* in the column it read is true.
C21_RenderedMatchesMatrix ==
    /\ \A cell \in Cells : (cell \in cellActive) <=> pattern[cell[1]][cell[2]]
    /\ cellActive \subseteq Cells
    /\ lastOp = "tick" =>
          \A r \in Rows : (TriggerCount(r) > 0) <=> pattern[r][sounded]

\* C21 witness: a tick read column 0 with the kick cell on and the hi-hat cell
\* clicked on and off again; only the kick sounded and only the cells that are
\* on are shown active.
C21_Witness ==
    /\ lastOp = "tick"
    /\ sounded = 0
    /\ toggledInRun
    /\ cellActive = { <<0, 0>>, <<3, 15>> }
    /\ pattern[0][0] /\ ~ pattern[2][0] /\ pattern[3][15]
    /\ Len(triggers) = 1
    /\ triggers[1].inst = "kick"

\* C22: once a stop click has been handled, and as long as no play click has
\* been issued after it, the transport stays stopped and no tick is processed;
\* in particular a play handler that was suspended on the audio unlock when the
\* stop was handled does not start the transport when its unlock completes.
C22_StopCancelsSuspendedStart ==
    [][(stopHandled /\ ~ playSinceStop) =>
          /\ transport = "stopped"
          /\ transport' = "stopped"
          /\ lastOp' # "tick"]_vars

\* C23: whenever the transport is stopped, at load and after any stop, the
\* cursor is 0 and no cell is marked current, whatever cells were clicked and
\* whatever tempo was set while it was stopped.
C23_StoppedMeansRewound ==
    transport = "stopped" => (currentStep = 0 /\ cellCurrent = {})

\* C23 witness: a run that ticked past column 1 was stopped, then the clap
\* cell was clicked and the slider moved to its minimum, the transport still
\* stopped.
C23_Witness ==
    /\ transport = "stopped"
    /\ stopHandled
    /\ sounded = 1
    /\ lastOp = "tempo"
    /\ bpm = MinBpm
    /\ cellActive = { <<3, 15>> }
    /\ currentStep = 0
    /\ cellCurrent = {}

\* C24: the buttons match the transport: Play is disabled and Stop enabled
\* exactly when the transport is started, so the two are never both enabled or
\* both disabled; this holds at load and after every play or stop handler,
\* completed or rejected.
C24_ControlsMatchTransport ==
    /\ playDisabled <=> (transport = "started")
    /\ stopDisabled <=> (transport = "stopped")
    /\ playDisabled # stopDisabled

\* C24 witness: a play handler has just completed a restart after a stop, a
\* second one still suspended: Play is disabled, Stop enabled.
C24_Witness ==
    /\ lastOp = "started"
    /\ transport = "started"
    /\ playSinceStop
    /\ sounded = 2
    /\ pending = 1
    /\ playDisabled
    /\ ~ stopDisabled

====
